---------------------------- MODULE Spec2Model ----------------------------
(***************************************************************************)
(* hussaini-lab-to-nwb, TINT export: the timestamp comparison of           *)
(* tint_conversion/assess_output.py, the unit-label writers of             *)
(* tint_conversion/export_spike_labels.py and the tetrode file writers of  *)
(* tint_conversion/export_spike_waveforms.py.                              *)
(*                                                                         *)
(* Five specifications share the variables below:                          *)
(*   Spec, FairSpec : compare_spike_samples, statement by statement,       *)
(*                    followed by compute_timestamp_comparison_metrics     *)
(*                    as compare_spike_samples_between_recordings calls    *)
(*                    them for one channel group (FairSpec adds that the   *)
(*                    program keeps running);                              *)
(*   SpecLabels     : write_unit_labels_to_file, one step per tetrode;     *)
(*   SpecCut        : write_to_cut_file and write_to_clu_file on a label   *)
(*                    vector given directly;                               *)
(*   SpecTint       : write_to_tetrode_files followed by                   *)
(*                    write_unit_labels_to_file, the order of              *)
(*                    TintConverter.write_to_tint, header write and data   *)
(*                    write of each tetrode file being separate steps.     *)
(*                    write_to_tetrode_files is called with its four       *)
(*                    declared parameters (tintconverter.py:100 passes a   *)
(*                    fifth, which Python rejects before any file is       *)
(*                    written).                                            *)
(***************************************************************************)
EXTENDS Integers, Sequences, FiniteSets

VARIABLES
    pc,                    \* position in compare_spike_samples / its caller
    threshold_timestamps,  \* deque argument, consumed from the left
    sorting_timestamps,    \* deque argument, consumed from the left
    paired_spikes,         \* dict: threshold timestamp -> list of <<new_ts, t_diff>>
    noise_spikes,          \* int
    get_new,               \* bool
    old_ts,                \* local, bound at line 82
    new_ts,                \* local, bound at line 84 (get_new is True on entry)
    t_diff,                \* local
    new_spikes,            \* local list, bound at line 93
    metrics,               \* outcome of compute_timestamp_comparison_metrics
    in_threshold,          \* history: threshold_timestamps as passed in
    in_sorting,            \* history: sorting_timestamps as passed in
    noise_idx,             \* history: positions of in_sorting dropped at line 89
    sorting_extractor,     \* units of the sorting, in unit-id order: <<[group, train], ...>>
    filename,              \* base filename given to write_unit_labels_to_file
    pending_groups,        \* tetrode ids write_unit_labels_to_file has yet to visit
    spike_train,           \* local of write_unit_labels_to_file: the trains of one tetrode
    unit_labels,           \* label vector handed to write_to_cut_file / write_to_clu_file
    files,                 \* file system: file name -> text
    sampling_rate,         \* recording.get_sampling_frequency()
    pending_tetrodes,      \* group ids write_to_tetrode_files has yet to visit
    group_id,              \* loop variable of write_to_tetrode_files
    tetrode_filename,      \* local of write_to_tetrode_files
    spike_waveform_dict    \* local of write_to_tetrode_files: timestamp -> waveform

vars == <<pc, threshold_timestamps, sorting_timestamps, paired_spikes,
          noise_spikes, get_new, old_ts, new_ts, t_diff, new_spikes, metrics,
          in_threshold, in_sorting, noise_idx,
          sorting_extractor, filename, pending_groups, spike_train, unit_labels,
          files,
          sampling_rate, pending_tetrodes, group_id, tetrode_filename,
          spike_waveform_dict>>

matcherVars == <<threshold_timestamps, sorting_timestamps, paired_spikes,
                 noise_spikes, get_new, old_ts, new_ts, t_diff, new_spikes,
                 metrics, in_threshold, in_sorting, noise_idx>>

labelVars == <<sorting_extractor, filename, pending_groups, spike_train,
               unit_labels, files>>

tintVars == <<sampling_rate, pending_tetrodes, group_id, tetrode_filename,
              spike_waveform_dict>>

-----------------------------------------------------------------------------
(* Bounds of the model *)

MaxThreshold == 3      \* longest threshold deque
MaxSorting == 3        \* longest sorting deque

\* Timestamps the deques are drawn from: the values of the two worked
\* examples, values 49, 50 and 51 samples away from 100, and two threshold
\* timestamps (100, 120) whose tolerance windows overlap.
ThresholdValues == {100, 120, 200, 300, 1000}
SortingValues == {49, 50, 105, 150, 151, 310, 800, 1010}

-----------------------------------------------------------------------------
(* Generic helpers *)

Abs(x) == IF x < 0 THEN -x ELSE x

Range(s) == {s[i] : i \in DOMAIN s}

\* The ascending (non-strict) sequences over S of length at most n.
AscendingSeqs(S, n) ==
    UNION {{s \in [1..k -> S] : \A i \in 1..(k - 1) : s[i] <= s[i + 1]} : k \in 0..n}

RECURSIVE SumSeq(_)
SumSeq(s) == IF s = <<>> THEN 0 ELSE Head(s) + SumSeq(Tail(s))

EmptyDict == [k \in {} |-> <<>>]

\* d[k] = v on a Python dict: a new key is added, an existing one overwritten.
DictSet(d, k, v) == [x \in (DOMAIN d) \cup {k} |-> IF x = k THEN v ELSE d[x]]

\* write_to_tetrode_files is not running
TintIdle ==
    /\ sampling_rate = 0
    /\ pending_tetrodes = {}
    /\ group_id = 0
    /\ tetrode_filename = <<>>
    /\ spike_waveform_dict = EmptyDict

-----------------------------------------------------------------------------
(* compare_spike_samples, assess_output.py:60-101 *)

Tolerance == 50

\* deque.popleft(): the deque that remains
PopLeftPeek(q) == q
PopLeft(q) == Tail(q)

\* line 80: while sorting_timestamps and threshold_timestamps
LoopCond(srt, thr) == srt # <<>> /\ thr # <<>>

\* line 88: t_diff < -50
BehindFlipped(d) == d < Tolerance
Behind(d) == d < -Tolerance

\* line 94: abs(t_diff) <= 50
InToleranceNoUpper(d) == d >= -Tolerance
InTolerance(d) == Abs(d) <= Tolerance

\* lines 80-86: one more pass of the outer loop
LoopIter ==
    /\ pc = "outer"
    /\ LoopCond(sorting_timestamps, threshold_timestamps)
    /\ old_ts' = Head(threshold_timestamps)
    /\ threshold_timestamps' = PopLeft(threshold_timestamps)
    /\ IF get_new
          THEN /\ new_ts' = Head(sorting_timestamps)
               /\ sorting_timestamps' = PopLeft(sorting_timestamps)
               /\ get_new' = FALSE
          ELSE UNCHANGED <<new_ts, sorting_timestamps, get_new>>
    /\ t_diff' = new_ts' - old_ts'
    /\ pc' = "noise"
    /\ UNCHANGED <<paired_spikes, noise_spikes, new_spikes, metrics,
                   in_threshold, in_sorting, noise_idx>>
    /\ UNCHANGED labelVars
    /\ UNCHANGED tintVars

\* lines 80, 101: the outer loop ends, the function returns
LoopExit ==
    /\ pc = "outer"
    /\ ~LoopCond(sorting_timestamps, threshold_timestamps)
    /\ pc' = "returned"
    /\ UNCHANGED matcherVars
    /\ UNCHANGED labelVars
    /\ UNCHANGED tintVars

\* lines 88-91: the pending sorter timestamp is dropped and counted as noise
NoiseStep ==
    /\ pc = "noise"
    /\ Behind(t_diff) /\ sorting_timestamps # <<>>
    /\ noise_idx' = noise_idx \cup {Len(in_sorting) - Len(sorting_timestamps)}
    /\ new_ts' = Head(sorting_timestamps)
    /\ sorting_timestamps' = PopLeft(sorting_timestamps)
    /\ t_diff' = new_ts' - old_ts
    /\ noise_spikes' = noise_spikes + 1
    /\ UNCHANGED <<pc, threshold_timestamps, paired_spikes, get_new, old_ts,
                   new_spikes, metrics, in_threshold, in_sorting>>
    /\ UNCHANGED labelVars
    /\ UNCHANGED tintVars

\* lines 88, 93: the noise loop ends, new_spikes = []
NoiseExit ==
    /\ pc = "noise"
    /\ ~(Behind(t_diff) /\ sorting_timestamps # <<>>)
    /\ new_spikes' = <<>>
    /\ pc' = "match"
    /\ UNCHANGED <<threshold_timestamps, sorting_timestamps, paired_spikes,
                   noise_spikes, get_new, old_ts, new_ts, t_diff, metrics,
                   in_threshold, in_sorting, noise_idx>>
    /\ UNCHANGED labelVars
    /\ UNCHANGED tintVars

\* lines 94-97: the pending sorter timestamp is recorded, the next one popped
MatchStep ==
    /\ pc = "match"
    /\ InTolerance(t_diff) /\ sorting_timestamps # <<>>
    /\ new_spikes' = Append(new_spikes, <<new_ts, t_diff>>)
    /\ new_ts' = Head(sorting_timestamps)
    /\ sorting_timestamps' = PopLeft(sorting_timestamps)
    /\ t_diff' = new_ts' - old_ts
    /\ UNCHANGED <<pc, threshold_timestamps, paired_spikes, noise_spikes,
                   get_new, old_ts, metrics, in_threshold, in_sorting, noise_idx>>
    /\ UNCHANGED labelVars
    /\ UNCHANGED tintVars

\* lines 94, 99: the match loop ends, paired_spikes[old_ts] = new_spikes
MatchExit ==
    /\ pc = "match"
    /\ ~(InTolerance(t_diff) /\ sorting_timestamps # <<>>)
    /\ paired_spikes' = DictSet(paired_spikes, old_ts, new_spikes)
    /\ pc' = "outer"
    /\ UNCHANGED <<threshold_timestamps, sorting_timestamps, noise_spikes,
                   get_new, old_ts, new_ts, t_diff, new_spikes, metrics,
                   in_threshold, in_sorting, noise_idx>>
    /\ UNCHANGED labelVars
    /\ UNCHANGED tintVars

-----------------------------------------------------------------------------
(* compute_timestamp_comparison_metrics, assess_output.py:104-139 *)

RECURSIVE SumOver(_, _)
\* sum of f[k] over the keys k in S
SumOver(S, f) ==
    IF S = {} THEN 0
    ELSE LET k == CHOOSE x \in S : TRUE IN f[k] + SumOver(S \ {k}, f)

\* el[1] of every entry of a bucket
Offsets(v) == [i \in DOMAIN v |-> v[i][2]]
AbsOffsets(v) == [i \in DOMAIN v |-> Abs(v[i][2])]

NaN == [kind |-> "nan"]

\* a / b on Python numbers: true division, ZeroDivisionError when b = 0
NumpyTrueDiv(a, b) ==
    IF b = 0 THEN NaN ELSE [kind |-> "ratio", num |-> a, den |-> b]
PyTrueDiv(a, b) ==
    IF b = 0 THEN [kind |-> "ZeroDivisionError"]
    ELSE [kind |-> "ratio", num |-> a, den |-> b]

\* np.std(xs) / np.sqrt(len(xs)): numpy floats, nan (with a RuntimeWarning,
\* no exception) for the empty list; otherwise the square root of
\* (n * sum(x^2) - sum(x)^2) / n^3, kept as that ratio.
NumpyStdErr(keys, sums) ==
    LET n == Cardinality(keys)
        sq == [k \in keys |-> sums[k] * sums[k]]
        s1 == SumOver(keys, sums)
    IN  IF n = 0 THEN NaN
        ELSE [kind |-> "sqrt_ratio",
              num |-> n * SumOver(keys, sq) - s1 * s1,
              den |-> n * n * n]

compute_timestamp_comparison_metrics(p) ==
    LET matched == {k \in DOMAIN p : Len(p[k]) >= 1}
        multiple_spikes == Cardinality({k \in DOMAIN p : Len(p[k]) > 1})
        missing_spikes == Cardinality({k \in DOMAIN p : Len(p[k]) = 0})
        non_overlap == [k \in matched |-> SumSeq(Offsets(p[k]))]
        abs_non_overlap == [k \in matched |-> SumSeq(AbsOffsets(p[k]))]
        stderr_non_overlap == NumpyStdErr(matched, non_overlap)
        mean_non_overlap ==
            PyTrueDiv(SumOver(matched, abs_non_overlap), Cardinality(matched))
    IN  IF mean_non_overlap.kind = "ZeroDivisionError"
           THEN [outcome |-> "ZeroDivisionError"]
           ELSE [outcome |-> "returned",
                 num_signal_snippets_found_by_sorter |-> Cardinality(matched),
                 num_signal_snippets_with_multiple_spikes |-> multiple_spikes,
                 mean_non_overlapping_samples |-> mean_non_overlap,
                 stderr_non_overlapping_samples |-> stderr_non_overlap]

\* compare_spike_samples_between_recordings, assess_output.py:45-50, for one
\* channel group: the metrics of the match just made, then the spike counts.
\* An exception of line 45 leaves the function; nothing is added then.
GroupMetrics(p, thr, srt, noise) ==
    LET m == compute_timestamp_comparison_metrics(p)
    IN  IF m.outcome # "returned" THEN m
        ELSE [outcome |-> "returned",
              num_signal_snippets_found_by_sorter |->
                  m.num_signal_snippets_found_by_sorter,
              num_signal_snippets_with_multiple_spikes |->
                  m.num_signal_snippets_with_multiple_spikes,
              mean_non_overlapping_samples |-> m.mean_non_overlapping_samples,
              stderr_non_overlapping_samples |-> m.stderr_non_overlapping_samples,
              num_spikes_thresh |-> Len(thr),
              num_spikes_sort |-> Len(srt),
              num_spikes_in_noise |-> noise]

Summarize ==
    /\ pc = "returned"
    /\ metrics' = GroupMetrics(paired_spikes, threshold_timestamps,
                               sorting_timestamps, noise_spikes)
    /\ pc' = "done"
    /\ UNCHANGED <<threshold_timestamps, sorting_timestamps, paired_spikes,
                   noise_spikes, get_new, old_ts, new_ts, t_diff, new_spikes,
                   in_threshold, in_sorting, noise_idx>>
    /\ UNCHANGED labelVars
    /\ UNCHANGED tintVars

-----------------------------------------------------------------------------
(* The comparison of one channel group *)

LabelsIdle ==
    /\ sorting_extractor = <<>>
    /\ filename = <<>>
    /\ pending_groups = {}
    /\ spike_train = <<>>
    /\ unit_labels = <<>>
    /\ files = EmptyDict

Init ==
    /\ pc = "outer"
    /\ in_threshold \in AscendingSeqs(ThresholdValues, MaxThreshold)
    /\ in_sorting \in AscendingSeqs(SortingValues, MaxSorting)
    /\ threshold_timestamps = in_threshold
    /\ sorting_timestamps = in_sorting
    /\ paired_spikes = EmptyDict
    /\ noise_spikes = 0
    /\ get_new = TRUE
    /\ old_ts = 0
    /\ new_ts = 0
    /\ t_diff = 0
    /\ new_spikes = <<>>
    /\ metrics = [outcome |-> "pending"]
    /\ noise_idx = {}
    /\ LabelsIdle
    /\ TintIdle

Next ==
    \/ LoopIter
    \/ LoopExit
    \/ NoiseStep
    \/ NoiseExit
    \/ MatchStep
    \/ MatchExit
    \/ Summarize

Spec == Init /\ [][Next]_vars

\* The program runs on: a step that can be taken is taken.
FairSpec == Spec /\ WF_vars(Next)

-----------------------------------------------------------------------------
(* Claims about compare_spike_samples *)

Returned == pc \in {"returned", "done"}

\* sorter timestamps popped so far
Consumed == Len(in_sorting) - Len(sorting_timestamps)

\* every entry held by a bucket of paired_spikes
Recorded == UNION {Range(paired_spikes[k]) : k \in DOMAIN paired_spikes}

TotalRecorded ==
    SumOver(DOMAIN paired_spikes, [k \in DOMAIN paired_spikes |-> Len(paired_spikes[k])])

\* C1: on threshold [100, 200, 300] and sorter [105, 310] the result holds a
\* bucket for each of the three threshold timestamps, 100 -> [(105, 5)],
\* 200 -> [], 300 -> [(310, 10)], and the noise count is 0.
C1_ThreeBuckets ==
    (Returned /\ in_threshold = <<100, 200, 300>> /\ in_sorting = <<105, 310>>)
        => /\ DOMAIN paired_spikes = {100, 200, 300}
           /\ paired_spikes[100] = << <<105, 5>> >>
           /\ paired_spikes[200] = <<>>
           /\ paired_spikes[300] = << <<310, 10>> >>
           /\ noise_spikes = 0

\* C2: on threshold [1000] and sorter [800, 1010] the result is
\* {1000: [(1010, 10)]} with a noise count of 1.
C2_NoiseThenMatch ==
    (Returned /\ in_threshold = <<1000>> /\ in_sorting = <<800, 1010>>)
        => /\ DOMAIN paired_spikes = {1000}
           /\ paired_spikes[1000] = << <<1010, 10>> >>
           /\ noise_spikes = 1

EntryWithinTolerance(key, e) ==
    /\ e[2] = e[1] - key
    /\ -Tolerance <= e[2]
    /\ e[2] <= Tolerance

\* C3: in every state of the matching loop and in the result, every entry
\* (t_new, d) of the bucket of a threshold timestamp t_old has d = t_new - t_old
\* and -50 <= d <= 50; this covers the list being built for the current t_old.
C3_BucketsWithinTolerance ==
    /\ \A k \in DOMAIN paired_spikes :
           \A i \in DOMAIN paired_spikes[k] :
               EntryWithinTolerance(k, paired_spikes[k][i])
    /\ pc = "match" =>
           \A i \in DOMAIN new_spikes : EntryWithinTolerance(old_ts, new_spikes[i])

\* C3 witness: a bucket filled with the two ties at exactly the tolerance.
C3_Witness ==
    /\ Returned
    /\ 100 \in DOMAIN paired_spikes
    /\ paired_spikes[100] = << <<50, -50>>, <<150, 50>> >>

\* sorter positions with no threshold timestamp of the input within tolerance
FarFromAll ==
    {i \in DOMAIN in_sorting :
        \A j \in DOMAIN in_threshold : Abs(in_sorting[i] - in_threshold[j]) > Tolerance}

\* C4: every sorter timestamp counted as noise is farther than 50 from every
\* threshold timestamp of the input and is an entry of no bucket (finished or
\* under construction); the noise count is the number of those timestamps and
\* never exceeds the number of sorter timestamps far from all thresholds.
C4_NoiseIsFarFromAll ==
    /\ noise_idx \subseteq FarFromAll
    /\ \A i \in noise_idx :
           /\ \A e \in Recorded : e[1] # in_sorting[i]
           /\ \A e \in Range(new_spikes) : e[1] # in_sorting[i]
    /\ noise_spikes = Cardinality(noise_idx)
    /\ noise_spikes <= Cardinality(FarFromAll)

\* C4 witness: a returned match with a noise spike and a matched bucket.
C4_Witness ==
    /\ Returned
    /\ noise_spikes >= 1
    /\ \E k \in DOMAIN paired_spikes : paired_spikes[k] # <<>>

\* C5: compare_spike_samples returns on every input; a pass of the outer loop
\* removes exactly one threshold timestamp, a pass of an inner loop exactly one
\* sorter timestamp; on return one of the deques is empty, what is left of the
\* sorter deque is the untouched tail of the input, and the buckets and the
\* noise count together account for no more than the popped timestamps.
C5_Terminates ==
    /\ <>(pc = "returned")
    /\ [][(pc = "outer" /\ pc' = "noise") =>
              Len(threshold_timestamps') = Len(threshold_timestamps) - 1]_vars
    /\ [][(pc \in {"noise", "match"} /\ pc' = pc) =>
              Len(sorting_timestamps') = Len(sorting_timestamps) - 1]_vars
    /\ [](pc = "returned" =>
              /\ (threshold_timestamps = <<>> \/ sorting_timestamps = <<>>)
              /\ sorting_timestamps =
                     SubSeq(in_sorting, Consumed + 1, Len(in_sorting))
              /\ noise_idx \subseteq 1..Consumed
              /\ noise_spikes + TotalRecorded <= Consumed)

\* C5 witness: the function has returned, after the match loop has run, with
\* the threshold deque exhausted and sorter timestamps left over.
C5_Witness ==
    /\ pc = "returned"
    /\ threshold_timestamps = <<>>
    /\ sorting_timestamps # <<>>
    /\ TotalRecorded >= 1

-----------------------------------------------------------------------------
(* Claims about compute_timestamp_comparison_metrics *)

AllBucketsEmpty == \A k \in DOMAIN paired_spikes : paired_spikes[k] = <<>>

\* C6: on a match result whose buckets are all empty (or that has no bucket)
\* the metrics end in an error, Python's ZeroDivisionError of line 132: no
\* metrics record is returned; and a record that is returned never carries
\* NaN for the mean or for the standard error.
C6_EmptyInputRaises ==
    pc = "done" =>
        /\ AllBucketsEmpty => metrics.outcome = "ZeroDivisionError"
        /\ metrics.outcome = "returned" =>
               /\ metrics.mean_non_overlapping_samples.kind = "ratio"
               /\ metrics.stderr_non_overlapping_samples.kind = "sqrt_ratio"

\* C6 witness: the metrics were asked for buckets that exist and are all empty.
C6_Witness ==
    /\ pc = "done"
    /\ DOMAIN paired_spikes # {}
    /\ AllBucketsEmpty
    /\ metrics.outcome = "ZeroDivisionError"

-----------------------------------------------------------------------------
(* Text.  A text is a sequence of chunks whose concatenation is the string; *)
(* a newline is always the chunk "\n" and a formatted number one chunk per  *)
(* character, so that lines and fixed-width fields can be read back.        *)

DigitChars == <<"0", "1", "2", "3", "4", "5", "6", "7", "8", "9">>

RECURSIVE FormatInt(_)
\* '%d' % n and '{}'.format(n), n >= 0: the decimal digits, no padding
FormatInt(n) ==
    IF n < 10 THEN <<DigitChars[n + 1]>>
    ELSE FormatInt(n \div 10) \o <<DigitChars[(n % 10) + 1]>>

RECURSIVE Repeat(_, _)
\* s * n on Python strings
Repeat(s, n) == IF n <= 0 THEN <<>> ELSE s \o Repeat(s, n - 1)

FieldWidth == 3
LabelsPerRow == 25

\* '%3u' % n: right-justified in (at least) three characters
Format3uNoPad(n) == FormatInt(n)
Format3u(n) ==
    LET d == FormatInt(n)
    IN  Repeat(<<" ">>, FieldWidth - Len(d)) \o d

RECURSIVE FormatLabels(_, _, _)
\* ('%3u' * n) % labels[from .. from + n - 1]
FormatLabels(labels, from, n) ==
    IF n <= 0 THEN <<>>
    ELSE Format3u(labels[from]) \o FormatLabels(labels, from + 1, n - 1)

\* len(np.unique(unit_labels))
NumUniqueMax(labels) ==
    IF labels = <<>> THEN 0
    ELSE CHOOSE m \in Range(labels) : \A x \in Range(labels) : x <= m
NumUnique(labels) == Cardinality(Range(labels))

-----------------------------------------------------------------------------
(* write_to_cut_file, export_spike_labels.py:44-100 *)

\* os.path.basename(os.path.splitext(cut_filename)[0]): the name without its
\* last suffix chunk (the names of the model hold no directory part)
Basename(cut_filename) == SubSeq(cut_filename, 1, Len(cut_filename) - 1)

\* (tab + '0') * n
Zeros(n) == Repeat(<<"    0">>, n)

\* the three lines of cluster cell_i, lines 85-88
ClusterLines(cell_i) ==
    <<" cluster: ">> \o FormatInt(cell_i) \o <<" center:">> \o Zeros(8) \o <<"\n">>
    \o <<"               ", "min:">> \o Zeros(8) \o <<"\n">>
    \o <<"               ", "max:">> \o Zeros(8) \o <<"\n">>

RECURSIVE AllClusterLines(_, _)
\* for cell_i in np.arange(n_clusters)
AllClusterLines(cell_i, n_clusters) ==
    IF cell_i >= n_clusters THEN <<>>
    ELSE ClusterLines(cell_i) \o AllClusterLines(cell_i + 1, n_clusters)

RECURSIVE CutRows(_, _, _)
\* (('%3u' * 25 + '\n') * n_rows) % labels, lines 92-97
CutRows(labels, row, n_rows) ==
    IF row >= n_rows THEN <<>>
    ELSE FormatLabels(labels, row * LabelsPerRow + 1, LabelsPerRow) \o <<"\n">>
         \o CutRows(labels, row + 1, n_rows)

\* the text written to cut_filename
CutText(cut_filename, labels) ==
    LET n_clusters == NumUnique(labels)
        n_spikes == Len(labels)
        n_rows == n_spikes \div LabelsPerRow
        remaining == n_spikes - n_rows * LabelsPerRow
    IN  <<"n_clusters: ">> \o FormatInt(n_clusters) \o <<"\n">>
        \o <<"n_channels: 4", "\n">>
        \o <<"n_params: 2", "\n">>
        \o <<"times_used_in_Vt:">> \o Zeros(4) \o <<"\n">>
        \o AllClusterLines(0, n_clusters)
        \o <<"\n", "Exact_cut_for: ">> \o Basename(cut_filename)
        \o <<" spikes: ">> \o FormatInt(n_spikes) \o <<"\n">>
        \o CutRows(labels, 0, n_rows)
        \o FormatLabels(labels, n_rows * LabelsPerRow + 1, remaining)

\* open(cut_filename, 'w'); f.writelines(write_list): the file is replaced
write_to_cut_file(fs, cut_filename, labels) ==
    DictSet(fs, cut_filename, CutText(cut_filename, labels))

-----------------------------------------------------------------------------
(* write_to_clu_file, export_spike_labels.py:103-127 *)

RECURSIVE SaveTxt(_)
\* np.savetxt(f, X, fmt='%d') of a 1-D array: one '%d' and a newline per entry
SaveTxt(X) ==
    IF X = <<>> THEN <<>>
    ELSE FormatInt(Head(X)) \o <<"\n">> \o SaveTxt(Tail(X))

CluText(labels) ==
    LET n_clu == NumUnique(labels)
    IN  SaveTxt(<<n_clu>> \o labels)

write_to_clu_file(fs, clu_filename, labels) ==
    DictSet(fs, clu_filename, CluText(labels))

-----------------------------------------------------------------------------
(* convert_spike_train_to_label_array, export_spike_labels.py:9-41 *)

RECURSIVE Concatenate(_)
\* np.concatenate(arrays).ravel()
Concatenate(arrays) ==
    IF arrays = <<>> THEN <<>> ELSE Head(arrays) \o Concatenate(Tail(arrays))

\* lines 29-31: np.ones((len(l),), dtype=int) * i for the i-th train (from 0)
UnitLabelArrays(trains) ==
    [u \in DOMAIN trains |-> [k \in DOMAIN trains[u] |-> u - 1]]

RECURSIVE SortOrders(_, _)
\* The orders in which the positions S of a can be listed with the values
\* ascending; positions of equal value come in any order.
SortOrders(a, S) ==
    IF S = {} THEN {<<>>}
    ELSE UNION {{<<i>> \o r : r \in SortOrders(a, S \ {i})} :
                   i \in {m \in S : \A j \in S : a[m] <= a[j]}}

\* np.argsort(a) with the default kind ('quicksort', which numpy documents as
\* not stable): any index order that sorts a.
ArgSort(a) == SortOrders(a, DOMAIN a)

\* the label vectors the function can return for these trains
convert_spike_train_to_label_array(trains) ==
    LET spike_train_flat == Concatenate(trains)
        unit_labels_flat == Concatenate(UnitLabelArrays(trains))
    IN  {[k \in DOMAIN sort_index |-> unit_labels_flat[sort_index[k]]] :
            sort_index \in ArgSort(spike_train_flat)}

-----------------------------------------------------------------------------
(* write_unit_labels_to_file, export_spike_labels.py:130-176 *)

RECURSIVE BeforeFirstDot(_)
\* str(filename).split('.')[0]
BeforeFirstDot(name) ==
    IF name = <<>> \/ Head(name) = "." THEN <<>>
    ELSE <<Head(name)>> \o BeforeFirstDot(Tail(name))

\* line 127
set_cut_filename_from_basename(name, tetrode_id) ==
    BeforeFirstDot(name) \o <<"_">> \o FormatInt(tetrode_id) \o <<".cut">>

\* str(cut_filename).replace('.cut', '.clu')
CluFilename(cut_filename) ==
    [k \in DOMAIN cut_filename |->
        IF cut_filename[k] = ".cut" THEN ".clu" ELSE cut_filename[k]]

\* sorting_extractor.get_units_property(property_name=group_property_name)
TetrodeIds(sorting) == [u \in DOMAIN sorting |-> sorting[u].group]

RECURSIVE TrainsOf(_, _)
\* get_units_spike_train(unit_ids=unit_ids[tetrode_ids == i])
TrainsOf(sorting, i) ==
    IF sorting = <<>> THEN <<>>
    ELSE (IF Head(sorting).group = i THEN <<Head(sorting).train>> ELSE <<>>)
         \o TrainsOf(Tail(sorting), i)

\* unit_labels += 1
PlusOne(labels) == [k \in DOMAIN labels |-> labels[k] + 1]

SetMin(S) == CHOOSE m \in S : \A x \in S : m <= x

\* lines 163-176: one pass of `for i in np.unique(tetrode_ids)`
WriteTetrodeLabels ==
    /\ pc = "labels"
    /\ pending_groups # {}
    /\ LET i == SetMin(pending_groups)
           trains == TrainsOf(sorting_extractor, i)
           cut_filename == set_cut_filename_from_basename(filename, i + 1)
           clu_filename == CluFilename(cut_filename)
       IN  /\ spike_train' = trains
           /\ \E labels \in convert_spike_train_to_label_array(trains) :
                  /\ unit_labels' = PlusOne(labels)
                  /\ files' = write_to_clu_file(
                                  write_to_cut_file(files, cut_filename, unit_labels'),
                                  clu_filename, unit_labels')
           /\ pending_groups' = pending_groups \ {i}
    /\ UNCHANGED <<pc, sorting_extractor, filename>>
    /\ UNCHANGED matcherVars
    /\ UNCHANGED tintVars

\* line 163 has no tetrode left: the function returns
WriteLabelsReturn ==
    /\ pc = "labels"
    /\ pending_groups = {}
    /\ pc' = "labels_done"
    /\ UNCHANGED labelVars
    /\ UNCHANGED matcherVars
    /\ UNCHANGED tintVars

(* Bounds of the sorting *)
MaxUnits == 3          \* most units of a sorting
MaxTrain == 2          \* most spikes of a unit

GroupIds == {0, 3}
SpikeTimes == {10, 20, 30}
Filenames == {<<"my_file", ".", "set">>, <<"my_file">>}

\* strictly ascending spike trains
SpikeTrains ==
    UNION {{t \in [1..k -> SpikeTimes] : \A j \in 1..(k - 1) : t[j] < t[j + 1]} :
              k \in 0..MaxTrain}

MatcherIdle ==
    /\ threshold_timestamps = <<>>
    /\ sorting_timestamps = <<>>
    /\ paired_spikes = EmptyDict
    /\ noise_spikes = 0
    /\ get_new = TRUE
    /\ old_ts = 0
    /\ new_ts = 0
    /\ t_diff = 0
    /\ new_spikes = <<>>
    /\ metrics = [outcome |-> "pending"]
    /\ in_threshold = <<>>
    /\ in_sorting = <<>>
    /\ noise_idx = {}

\* write_unit_labels_to_file is entered with a sorting of at least one unit
\* whose units carry the 'group' property; np.unique(tetrode_ids) is taken.
InitLabels ==
    /\ pc = "labels"
    /\ MatcherIdle
    /\ \E n \in 1..MaxUnits :
           sorting_extractor \in [1..n -> [group : GroupIds, train : SpikeTrains]]
    /\ filename \in Filenames
    /\ pending_groups = Range(TetrodeIds(sorting_extractor))
    /\ spike_train = <<>>
    /\ unit_labels = <<>>
    /\ files = EmptyDict
    /\ TintIdle

NextLabels ==
    \/ WriteTetrodeLabels
    \/ WriteLabelsReturn

SpecLabels == InitLabels /\ [][NextLabels]_vars

-----------------------------------------------------------------------------
(* Reading the label files back *)

\* the lines of a text: the newline-terminated pieces, and a last piece that
\* no newline ends when it is not empty
SplitLines(text) ==
    LET newlines == {k \in DOMAIN text : text[k] = "\n"}
        starts == {s \in DOMAIN text : s = 1 \/ (s - 1) \in newlines}
        start(n) == CHOOSE s \in starts : Cardinality({t \in starts : t < s}) = n - 1
        stop(s) ==
            IF \E k \in newlines : k >= s
               THEN (CHOOSE k \in newlines : k >= s /\ \A j \in newlines : j >= s => k <= j) - 1
               ELSE Len(text)
    IN  [n \in 1..Cardinality(starts) |-> SubSeq(text, start(n), stop(start(n)))]

IsDigit(c) == c \in Range(DigitChars)
DigitValue(c) == CHOOSE d \in 0..9 : DigitChars[d + 1] = c

RECURSIVE DigitsValue(_, _)
DigitsValue(chars, acc) ==
    IF chars = <<>> THEN acc
    ELSE DigitsValue(Tail(chars), 10 * acc + DigitValue(Head(chars)))

RECURSIVE StripLeft(_)
StripLeft(chars) ==
    IF chars # <<>> /\ Head(chars) = " " THEN StripLeft(Tail(chars)) ELSE chars

NotANumber == 0 - 1

\* the integer a blank-padded field spells, NotANumber when it spells none
ParseField(chars) ==
    LET d == StripLeft(chars)
    IN  IF d # <<>> /\ \A k \in DOMAIN d : IsDigit(d[k])
           THEN DigitsValue(d, 0)
           ELSE NotANumber

RECURSIVE Fields(_)
\* a line cut into fields of three characters (the last may be shorter)
Fields(line) ==
    IF line = <<>> THEN <<>>
    ELSE IF Len(line) <= FieldWidth THEN <<line>>
    ELSE <<SubSeq(line, 1, FieldWidth)>>
         \o Fields(SubSeq(line, FieldWidth + 1, Len(line)))

DecodeLine(line) ==
    LET f == Fields(line) IN [k \in DOMAIN f |-> ParseField(f[k])]

\* position of the Exact_cut_for line among the lines of a .cut text
ExactLineIndex(lines) ==
    CHOOSE k \in DOMAIN lines : lines[k] # <<>> /\ lines[k][1] = "Exact_cut_for: "

CutHeaderLines(text) ==
    LET lines == SplitLines(text)
    IN  SubSeq(lines, 1, ExactLineIndex(lines))

CutDataLines(text) ==
    LET lines == SplitLines(text)
    IN  SubSeq(lines, ExactLineIndex(lines) + 1, Len(lines))

\* the labels of the data block of a .cut text, in order
DecodeCutLabels(text) ==
    LET data == CutDataLines(text)
    IN  Concatenate([k \in DOMAIN data |-> DecodeLine(data[k])])

\* n_clusters as the first line of a .cut text declares it
CutDeclaredClusters(text) == ParseField(Tail(SplitLines(text)[1]))

\* the number after "spikes: " on the Exact_cut_for line
CutDeclaredSpikes(text) ==
    LET lines == SplitLines(text)
        l == lines[ExactLineIndex(lines)]
        at == CHOOSE k \in DOMAIN l : l[k] = " spikes: "
    IN  ParseField(SubSeq(l, at + 1, Len(l)))

\* the numbers of a .clu text, one per line
DecodeClu(text) ==
    LET lines == SplitLines(text)
    IN  [k \in DOMAIN lines |-> ParseField(lines[k])]

IsCut(name) == name[Len(name)] = ".cut"
IsClu(name) == name[Len(name)] = ".clu"

-----------------------------------------------------------------------------
(* Claims about the label vector and the label files of a tetrode *)

\* position of the flattened trains -> index (from 0) of the unit it came from
Owner(trains) == Concatenate(UnitLabelArrays(trains))

\* the order a stable sort of a gives
StableOrder(a) ==
    CHOOSE r \in SortOrders(a, DOMAIN a) :
        \A x, y \in DOMAIN r : (x < y /\ a[r[x]] = a[r[y]]) => r[x] < r[y]

\* C7: the label vector of a tetrode has one entry per spike, and entry p is
\* the index of the unit owning the p-th spike when the spikes are ordered by
\* timestamp ascending, spikes of equal timestamp in concatenation order
\* (a stable sort).  unit_labels holds the vector after the shift by one.
C7_StableLabelOrder ==
    (pc = "labels" /\ spike_train # <<>>) =>
        LET flat == Concatenate(spike_train)
            order == StableOrder(flat)
        IN  /\ Len(unit_labels) = Len(flat)
            /\ \A p \in DOMAIN unit_labels :
                   unit_labels[p] - 1 = Owner(spike_train)[order[p]]

\* C8: in every .cut and .clu file written, the set of label values is
\* exactly {1, ..., K}, K being the cluster count the file declares; 0 is
\* never written.
C8_DenseLabels ==
    \A f \in DOMAIN files :
        /\ IsCut(f) =>
               Range(DecodeCutLabels(files[f])) = 1..CutDeclaredClusters(files[f])
        /\ IsClu(f) =>
               LET v == DecodeClu(files[f])
               IN  Range(Tail(v)) = 1..Head(v)

-----------------------------------------------------------------------------
(* write_to_cut_file and write_to_clu_file on a label vector given directly *)

MaxSpikes == 51        \* longest periodic label vector (two full rows and one more)
MaxPattern == 2        \* longest period of a periodic label vector
MaxShort == 3          \* longest label vector drawn freely

LabelValues == {1, 2, 10, 999, 1000}

\* base repeated up to length n
Periodic(base, n) == [k \in 1..n |-> base[((k - 1) % Len(base)) + 1]]

LabelVectors ==
    UNION {[1..k -> LabelValues] : k \in 0..MaxShort}
    \cup {Periodic(base, n) :
              base \in UNION {[1..k -> LabelValues] : k \in 1..MaxPattern},
              n \in 0..MaxSpikes}

CutName == set_cut_filename_from_basename(<<"my_file", ".", "set">>, 1)
CluName == CluFilename(CutName)

WriteCutFile ==
    /\ pc = "writers"
    /\ CutName \notin DOMAIN files
    /\ files' = write_to_cut_file(files, CutName, unit_labels)
    /\ UNCHANGED <<pc, sorting_extractor, filename, pending_groups, spike_train,
                   unit_labels>>
    /\ UNCHANGED matcherVars
    /\ UNCHANGED tintVars

WriteCluFile ==
    /\ pc = "writers"
    /\ CluName \notin DOMAIN files
    /\ files' = write_to_clu_file(files, CluName, unit_labels)
    /\ UNCHANGED <<pc, sorting_extractor, filename, pending_groups, spike_train,
                   unit_labels>>
    /\ UNCHANGED matcherVars
    /\ UNCHANGED tintVars

InitCut ==
    /\ pc = "writers"
    /\ MatcherIdle
    /\ sorting_extractor = <<>>
    /\ filename = <<>>
    /\ pending_groups = {}
    /\ spike_train = <<>>
    /\ unit_labels \in LabelVectors
    /\ files = EmptyDict
    /\ TintIdle

NextCut ==
    \/ WriteCutFile
    \/ WriteCluFile

SpecCut == InitCut /\ [][NextCut]_vars

-----------------------------------------------------------------------------
(* Claims about the two writers *)

\* a label '%3u' renders in exactly three characters
FitsField(x) == Len(FormatInt(x)) <= FieldWidth

CeilDiv(n, d) == (n + d - 1) \div d

\* header: 4 lines, 3 per cluster, an empty line, the Exact_cut_for line
\* carrying spikes: N; then ceil(N/25) data lines, all of 25 labels but the
\* last, which holds the rest
CutLayout(text, labels) ==
    LET N == Len(labels)
        K == Cardinality(Range(labels))
        header == CutHeaderLines(text)
        data == CutDataLines(text)
    IN  /\ Len(header) = 4 + 3 * K + 2
        /\ CutDeclaredClusters(text) = K
        /\ header[Len(header) - 1] = <<>>
        /\ CutDeclaredSpikes(text) = N
        /\ Len(data) = CeilDiv(N, LabelsPerRow)
        /\ \A r \in DOMAIN data :
               Len(DecodeLine(data[r])) =
                   IF r < Len(data) THEN LabelsPerRow
                   ELSE N - LabelsPerRow * (Len(data) - 1)

\* C9 as stated: for every label vector the .cut text has the layout above
\* and its data block, read as 3-character fields, gives back the labels.
C9_RoundTripAnyLabel ==
    CutName \in DOMAIN files =>
        /\ CutLayout(files[CutName], unit_labels)
        /\ DecodeCutLabels(files[CutName]) = unit_labels

\* C9 amended: the same, for label vectors whose labels have at most three
\* digits (are at most 999).
C9_RoundTrip ==
    (CutName \in DOMAIN files /\ \A k \in DOMAIN unit_labels : FitsField(unit_labels[k])) =>
        /\ CutLayout(files[CutName], unit_labels)
        /\ DecodeCutLabels(files[CutName]) = unit_labels

\* C9 witness: a .cut file of two full rows and a short one, with a
\* three-digit label and a one-digit label.
C9_Witness ==
    /\ CutName \in DOMAIN files
    /\ Len(unit_labels) = 2 * LabelsPerRow + 1
    /\ Range(unit_labels) = {1, 999}

\* C10: the .clu text of a label vector of length N has N + 1 lines, each
\* ended by a newline: the number of distinct labels, then the labels
\* unchanged and in order; for [1, 1, 2] it is "2\n1\n1\n2\n".
C10_CluLayout ==
    CluName \in DOMAIN files =>
        LET text == files[CluName]
        IN  /\ Len(SplitLines(text)) = Len(unit_labels) + 1
            /\ text[Len(text)] = "\n"
            /\ Cardinality({k \in DOMAIN text : text[k] = "\n"}) = Len(unit_labels) + 1
            /\ DecodeClu(text) = <<Cardinality(Range(unit_labels))>> \o unit_labels
            /\ unit_labels = <<1, 1, 2>> =>
                   text = <<"2", "\n", "1", "\n", "1", "\n", "2", "\n">>

\* C10 witness: the .clu file of the labels [1, 1, 2] is written.
C10_Witness ==
    /\ CluName \in DOMAIN files
    /\ unit_labels = <<1, 1, 2>>

-----------------------------------------------------------------------------
(* The tetrode files, export_spike_waveforms.py.                            *)
(* The content of a tetrode file is a sequence of chunks: the characters of *)
(* the header as text chunks, a packed timestamp (4 bytes, '>i') as a ts    *)
(* chunk, the 50 packed samples of one channel of one waveform as a wave    *)
(* chunk.  A waveform is named by the unit and the position in the unit's   *)
(* spike train that get_unit_waveforms cut it for.                          *)

TextChunk(str) == [kind |-> "text", s |-> str]
TsChunk(t) == [kind |-> "ts", t |-> t]
WaveChunk(w, ch) == [kind |-> "wave", unit |-> w.unit, idx |-> w.idx, ch |-> ch]

AsChunks(text) == [k \in DOMAIN text |-> TextChunk(text[k])]

Timebase == 96000
NumChans == 4

\* the .set file beside the tetrode files
SetFileText ==
    <<"trial_date Monday, 3 Feb 2020", "\n",
      "sw_version", " 1.2.2.16", "\n",
      "ADC_fullscale_mv 1500", "\n">>

\* get_set_header, lines 50-57: the lines up to and including the first one
\* that contains sw_version (the whole file when none does)
get_set_header(set_text) ==
    LET hits == {k \in DOMAIN set_text : set_text[k] = "sw_version"}
    IN  IF hits = {} THEN set_text
        ELSE LET at == CHOOSE k \in hits : \A j \in hits : k <= j
                 ends == {k \in DOMAIN set_text : k >= at /\ set_text[k] = "\n"}
             IN  IF ends = {} THEN set_text
                 ELSE SubSeq(set_text, 1, CHOOSE k \in ends : \A j \in ends : k <= j)

\* the list to_write of write_tetrode_file_header, lines 183-195
TetrodeHeader(n_spikes_chan, Fs) ==
    get_set_header(SetFileText)
    \o <<"num_chans 4", "\n">>
    \o <<"timebase ">> \o FormatInt(Timebase) \o <<" hz", "\n">>
    \o <<"bytes_per_timestamp 4", "\n">>
    \o <<"samples_per_spike 50", "\n">>
    \o <<"sample_rate ">> \o FormatInt(Fs) \o <<" hz", "\n">>
    \o <<"bytes_per_sample 1", "\n">>
    \o <<"spike_format t,ch1,t,ch2,t,ch3,t,ch4", "\n">>
    \o <<"num_spikes ">> \o FormatInt(n_spikes_chan) \o <<"\n">>
    \o <<"data_start">>

\* write_tetrode_file_header, lines 197-198: open(tetrode_file, 'w') drops
\* what the file held, writelines, close
write_tetrode_file_headerAppend(fs, name, n_spikes_chan, Fs) ==
    DictSet(fs, name,
            (IF name \in DOMAIN fs THEN fs[name] ELSE <<>>)
            \o AsChunks(TetrodeHeader(n_spikes_chan, Fs)))
write_tetrode_file_header(fs, name, n_spikes_chan, Fs) ==
    DictSet(fs, name, AsChunks(TetrodeHeader(n_spikes_chan, Fs)))

\* sorted(waveform_dict.keys()): the keys of a dict are distinct
SortedKeys(d) ==
    [n \in 1..Cardinality(DOMAIN d) |->
        CHOOSE k \in DOMAIN d : Cardinality({j \in DOMAIN d : j < k}) = n - 1]

\* line 225: spike_times *= 96000 // Fs
Rescale(t, Fs) == t * (Timebase \div Fs)

\* comb_list of write_tetrode_file_data, lines 216-233: for the n-th key in
\* ascending order, the rescaled timestamp before each of the four channels
SpikeRecordsUnsorted(d, Fs) ==
    LET keys == [n \in 1..Cardinality(DOMAIN d) |->
                    CHOOSE k \in DOMAIN d : Cardinality({j \in DOMAIN d : j > k}) = n - 1]
        n_spikes == NumChans * Len(keys)
    IN  [m \in 1..(2 * n_spikes) |->
            LET row == (m + 1) \div 2
                key == keys[((row - 1) \div NumChans) + 1]
            IN  IF m % 2 = 1 THEN TsChunk(Rescale(key, Fs))
                ELSE WaveChunk(d[key], ((row - 1) % NumChans) + 1)]
SpikeRecords(d, Fs) ==
    LET keys == SortedKeys(d)
        n_spikes == NumChans * Len(keys)
    IN  [m \in 1..(2 * n_spikes) |->
            LET row == (m + 1) \div 2
                key == keys[((row - 1) \div NumChans) + 1]
            IN  IF m % 2 = 1 THEN TsChunk(Rescale(key, Fs))
                ELSE WaveChunk(d[key], ((row - 1) % NumChans) + 1)]

DataEnd == TextChunk("\r\ndata_end\r\n")

\* write_tetrode_file_data, lines 235-237: open(tetrode_file, 'ab') appends
write_tetrode_file_data(fs, name, d, Fs) ==
    DictSet(fs, name,
            (IF name \in DOMAIN fs THEN fs[name] ELSE <<>>)
            \o SpikeRecords(d, Fs) \o <<DataEnd>>)

RECURSIVE GroupUnitIdsFrom(_, _, _)
\* line 283: the unit ids of the group, in unit order
GroupUnitIdsFrom(sorting, g, i) ==
    IF i > Len(sorting) THEN <<>>
    ELSE (IF sorting[i].group = g THEN <<i>> ELSE <<>>)
         \o GroupUnitIdsFrom(sorting, g, i + 1)

\* lines 284-285 zipped as lines 115-117 do: the (sample, waveform) pairs of
\* the units of a group, unit after unit
SamplePairs(sorting, unit_ids) ==
    Concatenate([n \in DOMAIN unit_ids |->
        [k \in DOMAIN sorting[unit_ids[n]].train |->
            <<sorting[unit_ids[n]].train[k], [unit |-> unit_ids[n], idx |-> k]>>]])

RECURSIVE CombineKeepFirst(_, _)
CombineKeepFirst(pairs, d) ==
    IF pairs = <<>> THEN d
    ELSE CombineKeepFirst(Tail(pairs),
                          IF Head(pairs)[1] \in DOMAIN d THEN d
                          ELSE DictSet(d, Head(pairs)[1], Head(pairs)[2]))

RECURSIVE Combine(_, _)
\* lines 115-119: tetrode_spikes[sample] = waveform, pair after pair
Combine(pairs, d) ==
    IF pairs = <<>> THEN d
    ELSE Combine(Tail(pairs), DictSet(d, Head(pairs)[1], Head(pairs)[2]))

combine_units_on_tetrode(pairs) == Combine(pairs, EmptyDict)

\* line 290: str(set_file).split('.')[0] + '.{}'.format(group_id + 1)
TetrodeFilenameSameId(set_file, g) ==
    BeforeFirstDot(set_file) \o <<".">> \o FormatInt(g)
TetrodeFilename(set_file, g) ==
    BeforeFirstDot(set_file) \o <<".">> \o FormatInt(g + 1)

-----------------------------------------------------------------------------
(* TintConverter.write_to_tint, tintconverter.py:96-103: the tetrode files  *)
(* of every group, then the .cut and .clu files, of the same sorting        *)

\* write_to_tetrode_files, lines 280-290: the next group, its waveforms
\* combined, its file name
TetrodeBegin ==
    /\ pc = "tetrodes"
    /\ pending_tetrodes # {}
    /\ group_id' = SetMin(pending_tetrodes)
    /\ spike_waveform_dict' =
           combine_units_on_tetrode(
               SamplePairs(sorting_extractor,
                           GroupUnitIdsFrom(sorting_extractor, group_id', 1)))
    /\ tetrode_filename' = TetrodeFilename(filename, group_id')
    /\ pc' = "write_header"
    /\ UNCHANGED <<sampling_rate, pending_tetrodes>>
    /\ UNCHANGED labelVars
    /\ UNCHANGED matcherVars

\* write_tetrode, line 253
WriteTetrodeHeader ==
    /\ pc = "write_header"
    /\ files' = write_tetrode_file_header(files, tetrode_filename,
                                          Cardinality(DOMAIN spike_waveform_dict),
                                          sampling_rate)
    /\ pc' = "write_data"
    /\ UNCHANGED <<sorting_extractor, filename, pending_groups, spike_train,
                   unit_labels>>
    /\ UNCHANGED tintVars
    /\ UNCHANGED matcherVars

\* write_tetrode, line 254; the pass of the loop of line 280 is over
WriteTetrodeData ==
    /\ pc = "write_data"
    /\ files' = write_tetrode_file_data(files, tetrode_filename,
                                        spike_waveform_dict, sampling_rate)
    /\ pending_tetrodes' = pending_tetrodes \ {group_id}
    /\ pc' = "tetrodes"
    /\ UNCHANGED <<sorting_extractor, filename, pending_groups, spike_train,
                   unit_labels>>
    /\ UNCHANGED <<sampling_rate, group_id, tetrode_filename, spike_waveform_dict>>
    /\ UNCHANGED matcherVars

\* the loop of line 280 is over; tintconverter.py:103 enters
\* write_unit_labels_to_file, which takes np.unique(tetrode_ids)
TetrodesReturn ==
    /\ pc = "tetrodes"
    /\ pending_tetrodes = {}
    /\ pending_groups' = Range(TetrodeIds(sorting_extractor))
    /\ pc' = "labels"
    /\ UNCHANGED <<sorting_extractor, filename, spike_train, unit_labels, files>>
    /\ UNCHANGED tintVars
    /\ UNCHANGED matcherVars

\* write_to_tint is called again for the same recording, sorting and set file
Rerun ==
    /\ pc = "labels_done"
    /\ sampling_rate # 0
    /\ pending_tetrodes' = Range(TetrodeIds(sorting_extractor))
    /\ spike_train' = <<>>
    /\ unit_labels' = <<>>
    /\ pc' = "tetrodes"
    /\ UNCHANGED <<sorting_extractor, filename, pending_groups, files>>
    /\ UNCHANGED <<sampling_rate, group_id, tetrode_filename, spike_waveform_dict>>
    /\ UNCHANGED matcherVars

(* Bounds of the export *)
MaxTintUnits == 2      \* most units of the exported sorting

SamplingRates == {48000, 30000}
SetFilename == <<"my_file", ".", "set">>

\* what a tetrode file of an earlier export may hold
StaleContent ==
    AsChunks(<<"sw_version", " 0.9", "\n", "num_spikes ", "7", "\n", "data_start">>)
    \o <<TsChunk(2), DataEnd>>

InitTint ==
    /\ pc = "tetrodes"
    /\ MatcherIdle
    /\ \E n \in 1..MaxTintUnits :
           sorting_extractor \in [1..n -> [group : GroupIds, train : SpikeTrains]]
    /\ filename = SetFilename
    /\ pending_groups = {}
    /\ spike_train = <<>>
    /\ unit_labels = <<>>
    /\ files \in {EmptyDict,
                  [f \in {TetrodeFilename(SetFilename, 0)} |-> StaleContent]}
    /\ sampling_rate \in SamplingRates
    /\ pending_tetrodes = Range(TetrodeIds(sorting_extractor))
    /\ group_id = 0
    /\ tetrode_filename = <<>>
    /\ spike_waveform_dict = EmptyDict

NextTint ==
    \/ TetrodeBegin
    \/ WriteTetrodeHeader
    \/ WriteTetrodeData
    \/ TetrodesReturn
    \/ WriteTetrodeLabels
    \/ WriteLabelsReturn
    \/ Rerun

SpecTint == InitTint /\ [][NextTint]_vars

-----------------------------------------------------------------------------
(* Reading a tetrode file back *)

IsTetrodeFile(name) == Len(name) >= 2 /\ name[Len(name) - 1] = "."

\* the tetrode number a file name ends in (my_file.4, my_file_4.cut)
NameNumber(name) ==
    IF IsTetrodeFile(name) THEN ParseField(SubSeq(name, Len(name), Len(name)))
    ELSE ParseField(SubSeq(name, Len(name) - 1, Len(name) - 1))

DataStartIndexes(content) ==
    {k \in DOMAIN content : content[k] = TextChunk("data_start")}

DataEndIndexes(content) == {k \in DOMAIN content : content[k] = DataEnd}

\* the chunks up to and including data_start
HeaderPart(content) ==
    SubSeq(content, 1, CHOOSE k \in DataStartIndexes(content) :
                           \A j \in DataStartIndexes(content) : k <= j)

\* the chunks between data_start and the last chunk of the file
DataSection(content) == SubSeq(content, Len(HeaderPart(content)) + 1, Len(content) - 1)

\* the number the num_spikes line of the header gives
HeaderNumSpikes(content) ==
    LET h == HeaderPart(content)
        at == CHOOSE k \in DOMAIN h : h[k] = TextChunk("num_spikes ")
        stop == CHOOSE k \in DOMAIN h :
                    /\ k > at
                    /\ h[k] = TextChunk("\n")
                    /\ \A j \in (at + 1)..(k - 1) : h[j] # TextChunk("\n")
    IN  ParseField([k \in 1..(stop - at - 1) |-> h[at + k].s])

\* a header and nothing else: text only, ended by the one data_start
HeaderOnly(content) ==
    /\ content # <<>>
    /\ \A k \in DOMAIN content : content[k].kind = "text"
    /\ DataStartIndexes(content) = {Len(content)}
    /\ DataEndIndexes(content) = {}
    /\ \E k \in DOMAIN content : content[k] = TextChunk("num_spikes ")

\* a header, then timestamp and waveform chunks only, then one data_end
CompleteFile(content) ==
    /\ Cardinality(DataStartIndexes(content)) = 1
    /\ DataEndIndexes(content) = {Len(content)}
    /\ HeaderOnly(HeaderPart(content))
    /\ \A k \in DOMAIN DataSection(content) :
           DataSection(content)[k].kind \in {"ts", "wave"}

\* the spike records of a data section, eight chunks each
NumRecords(content) == Len(DataSection(content)) \div (2 * NumChans)

RecordChunk(content, i, m) == DataSection(content)[2 * NumChans * (i - 1) + m]

-----------------------------------------------------------------------------
(* Claims about the export *)

ExportedGroups == Range(TetrodeIds(sorting_extractor))

\* the tetrode file of this export being between its header and its data
MidWrite(f) == pc = "write_data" /\ f = tetrode_filename

\* the tetrode files this or an earlier run of the export has written in full
WrittenTetrodeFiles ==
    {f \in DOMAIN files :
        IsTetrodeFile(f) /\ files[f] # StaleContent /\ ~MidWrite(f)
        /\ ~(pc = "write_header" /\ f = tetrode_filename /\ files[f] = StaleContent)}

\* the names group g is expected to be exported under
ExpectedTetrodeName(g) == <<"my_file", ".", DigitChars[g + 2]>>
ExpectedCutName(g) == <<"my_file", "_", DigitChars[g + 2], ".cut">>
ExpectedCluName(g) == <<"my_file", "_", DigitChars[g + 2], ".clu">>

ExpectedNames ==
    UNION {{ExpectedTetrodeName(g), ExpectedCutName(g), ExpectedCluName(g)} :
              g \in ExportedGroups}

\* C11: group g is written to the tetrode file .(g+1) and to the label files
\* _(g+1).cut and _(g+1).clu (group 0 -> 1, group 3 -> 4), and distinct groups
\* write to distinct files: when the export is over every group has its three
\* files, 3 * (number of groups) files in all, each numbered g + 1.
C11_GroupFilenames ==
    /\ pc \in {"write_header", "write_data"} =>
           /\ tetrode_filename = ExpectedTetrodeName(group_id)
           /\ NameNumber(tetrode_filename) = group_id + 1
    /\ pc = "labels_done" =>
           /\ ExpectedNames \subseteq DOMAIN files
           /\ Cardinality(ExpectedNames) = 3 * Cardinality(ExportedGroups)
           /\ \A f \in DOMAIN files : f \in ExpectedNames \/ files[f] = StaleContent
           /\ \A f \in ExpectedNames : NameNumber(f) - 1 \in ExportedGroups
           /\ 0 \in ExportedGroups => <<"my_file", ".", "1">> \in DOMAIN files
           /\ 3 \in ExportedGroups => <<"my_file", ".", "4">> \in DOMAIN files

\* C11 witness: the export of a sorting with units in groups 0 and 3 is over.
C11_Witness ==
    /\ pc = "labels_done"
    /\ ExportedGroups = {0, 3}
    /\ Cardinality(DOMAIN files) = 6

\* the timestamp of the spike a waveform chunk was cut for
OwnTimestamp(w) == sorting_extractor[w.unit].train[w.idx]

\* C12: in the data section of every tetrode file written, each spike takes
\* eight consecutive chunks, timestamp and waveform segment for channels 1 to
\* 4, all four of one spike and under that spike's own timestamp (rescaled by
\* line 225); the spikes come in ascending timestamp order, equal timestamps
\* in stream order (unit, then position in the train).
C12_SpikeRecordsInOrder ==
    \A f \in WrittenTetrodeFiles :
        LET c == files[f]
        IN  /\ CompleteFile(c)
            /\ Len(DataSection(c)) % (2 * NumChans) = 0
            /\ \A i \in 1..NumRecords(c) :
                   \A ch \in 1..NumChans :
                       LET ts == RecordChunk(c, i, 2 * ch - 1)
                           wv == RecordChunk(c, i, 2 * ch)
                       IN  /\ ts.kind = "ts"
                           /\ wv.kind = "wave"
                           /\ wv.ch = ch
                           /\ wv.unit = RecordChunk(c, i, 2).unit
                           /\ wv.idx = RecordChunk(c, i, 2).idx
                           /\ ts.t = Rescale(OwnTimestamp(wv), sampling_rate)
            /\ \A i \in 1..(NumRecords(c) - 1) :
                   LET a == RecordChunk(c, i, 2)
                       b == RecordChunk(c, i + 1, 2)
                   IN  \/ OwnTimestamp(a) < OwnTimestamp(b)
                       \/ /\ OwnTimestamp(a) = OwnTimestamp(b)
                          /\ (a.unit < b.unit \/ (a.unit = b.unit /\ a.idx < b.idx))

\* C12 witness: a tetrode file written with three spike records.
C12_Witness ==
    \E f \in WrittenTetrodeFiles : NumRecords(files[f]) = 3

\* C13: the timestamps of a tetrode file are multiplied by the exact ratio
\* 96000 / sample_rate when the sample rate divides 96000; otherwise the
\* encoding fails and no rescaled timestamp is written.
C13_ExactRatioOrError ==
    \A f \in WrittenTetrodeFiles :
        LET c == files[f]
        IN  IF Timebase % sampling_rate = 0
               THEN \A i \in 1..NumRecords(c) :
                        RecordChunk(c, i, 1).t * sampling_rate =
                            OwnTimestamp(RecordChunk(c, i, 2)) * Timebase
               ELSE \A k \in DOMAIN c : c[k].kind # "ts"

\* the units of group g that spike at timestamp t
UnitsAt(g, t) ==
    {u \in DOMAIN sorting_extractor :
        sorting_extractor[u].group = g /\ t \in Range(sorting_extractor[u].train)}

GroupTimestamps(g) ==
    UNION {Range(sorting_extractor[u].train) :
              u \in {v \in DOMAIN sorting_extractor : sorting_extractor[v].group = g}}

\* C14: the tetrode file of a group holds one spike record per distinct
\* timestamp of the group, the waveform being the one of the last unit that
\* spikes at that timestamp, and num_spikes of its header equals the number
\* of distinct timestamps and the number of spike records.
C14_OneWaveformPerTimestamp ==
    \A f \in WrittenTetrodeFiles :
        LET c == files[f]
            g == NameNumber(f) - 1
        IN  /\ HeaderNumSpikes(c) = Cardinality(GroupTimestamps(g))
            /\ NumRecords(c) = Cardinality(GroupTimestamps(g))
            /\ Len(DataSection(c)) = 2 * NumChans * NumRecords(c)
            /\ \A t \in GroupTimestamps(g) :
                   \E i \in 1..NumRecords(c) :
                       LET w == RecordChunk(c, i, 2)
                       IN  /\ OwnTimestamp(w) = t
                           /\ \A u \in UnitsAt(g, t) : u <= w.unit

\* C14 witness: a tetrode file written for a group in which two units spike
\* at the same timestamp.
C14_Witness ==
    \E f \in WrittenTetrodeFiles :
        \E t \in GroupTimestamps(NameNumber(f) - 1) :
            Cardinality(UnitsAt(NameNumber(f) - 1, t)) = 2

\* C15: between the header write and the data write a tetrode file holds the
\* header and nothing else; once written it is the header (ended by the one
\* data_start), spike records, and one data_end at the very end, whatever the
\* file held before (a file of an earlier export, or of an earlier run).
C15_HeaderThenDataThenEnd ==
    /\ \A f \in DOMAIN files : MidWrite(f) => HeaderOnly(files[f])
    /\ \A f \in WrittenTetrodeFiles :
           /\ CompleteFile(files[f])
           /\ Len(DataSection(files[f])) = 2 * NumChans * HeaderNumSpikes(files[f])

\* C15 witness: the tetrode files have been written a second time (the label
\* files of the first run exist), over a file that held spike records.
C15_Witness ==
    /\ pc = "tetrodes"
    /\ pending_tetrodes = {}
    /\ \E f \in DOMAIN files : IsCut(f)
    /\ \E f \in WrittenTetrodeFiles : NumRecords(files[f]) >= 1

\* C16: for every group the number of labels of the .cut file (its spikes: n)
\* and of the .clu file equals num_spikes of the header of the tetrode file.
C16_LabelsMatchSpikes ==
    pc = "labels_done" =>
        \A g \in ExportedGroups :
            LET n == HeaderNumSpikes(files[ExpectedTetrodeName(g)])
            IN  /\ CutDeclaredSpikes(files[ExpectedCutName(g)]) = n
                /\ Len(DecodeCutLabels(files[ExpectedCutName(g)])) = n
                /\ Len(DecodeClu(files[ExpectedCluName(g)])) - 1 = n

=============================================================================
